---- MODULE Spec2Model ----
(***************************************************************************)
(* Verification model of chanlun-pro's backtesting core:                   *)
(*   src/src/chanlun/backtesting/backtest.py  (BackTest)                   *)
(*   src/src/chanlun/backtesting/base.py      (POSITION, Operation,        *)
(*                                             Strategy helpers)           *)
(* BackTestTrader and BackTestKlines are imported by backtest.py; their   *)
(* code is not in these two files, and the operators that model them       *)
(* follow the written specification (sections 4.1, 4.2 and 4.5).           *)
(***************************************************************************)
EXTENDS Integers, Sequences, FiniteSets, TLC

None == "None"

\* ---------------------------------------------------------------- bounds
\* Number of bars the data provider can supply before exhaustion.
MaxTicks == 2
\* Cap on the number of exceptions one run may see.
MaxFailures == 2
\* Longest stroke list handed to dynamic_change_loss_by_bi.
MaxBis == 2
\* Longest balance series of a report.
MaxDays == 2
\* Largest distance, in raw bars, between a fractal's last bar and the
\* latest bar.
MaxGap == 3
\* Most fractals listed after a stroke's ending fractal.
MaxFxs == 2
\* Longest point series handed to points_jiaodu.
MaxPoints == 8

\* ------------------------------------------------------- BackTest: config
\* backtest.py:32-35, in checking order.
check_keys ==
    << "mode", "market", "base_code", "codes", "frequencys",
       "start_datetime", "end_datetime",
       "init_balance", "fee_rate", "max_pos",
       "cl_config", "is_stock", "is_futures", "strategy" >>

RequiredKeys == { check_keys[i] : i \in 1..Len(check_keys) }

\* The configurations handed to the constructor: no configuration at all,
\* or a mapping that holds some of the required keys.
NoConfig == [ given |-> FALSE, keys |-> {} ]
Configs == { NoConfig } \cup { [ given |-> TRUE, keys |-> K ] : K \in SUBSET RequiredKeys }

\* No exception.
NoExc == [ type |-> "None" ]

\* config['codes']: the instruments, in configured order.
codes == << 1, 2 >>

\* Signal types used by the simulated strategy (backtest.py:296-301).
RunMmds == { "1buy", "1sell" }

\* Balance values the mark-to-market update may record.
BalanceLevels == { 100, 110 }

VARIABLES
    config,             \* the constructor's argument
    pc,                 \* position in BackTest.__init__ / BackTest.run
    raised,             \* the exception that left __init__ or run, or NoExc
    trader,             \* self.trader: None or "BackTestTrader"
    datas,              \* self.datas: None or "BackTestKlines"
    trader_datas,       \* self.trader.datas: None, "BackTestKlines"
    next_frequency,     \* self.next_frequency
    remaining,          \* bars the provider has not yet supplied
    tick,               \* number of successful datas.next() calls
    idx,                \* index into self.codes of the for loop
    positions,          \* trader: live positions
    positions_history,  \* trader: closed positions per instrument
    balance_history,    \* trader: tick -> balance
    log,                \* self.log.info records written by run's handler
    marked,             \* tick of the last update_position_record()
    invoked,            \* instruments whose pipeline ran in the current tick
    ticks_done,         \* ticks whose for loop has finished
    end_calls,          \* number of trader.end() calls
    live_at_end,        \* the positions that were live when the stream ended
    pos,                \* the POSITION handed to a Strategy helper
    call,               \* the last helper call: its name and arguments
    ret,                \* what that call returned
    exc,                \* the exception that call raised, or NoExc
    res_in,             \* what result() reads: mode, balances, trader.results
    res_out,            \* what result() computed, or NoReport
    h_in,               \* the arguments of a pattern heuristic
    h_out,              \* what the heuristic returned, or NoAnswer
    attrs,              \* the configuration values __init__ copies to self
    file,               \* the snapshot file on disk
    restored            \* the object BackTest().load(file) filled in

runnerVars == << config, pc, raised, trader, datas, trader_datas, next_frequency,
                 remaining, tick, idx, positions, positions_history,
                 balance_history, log, marked, invoked, ticks_done, end_calls,
                 live_at_end >>

riskVars == << pos, call, ret, exc >>

reportVars == << res_in, res_out >>

patternVars == << h_in, h_out >>

snapshotVars == << attrs, file, restored >>

vars == << runnerVars, riskVars, reportVars, patternVars, snapshotVars >>

\* What the actions of one part leave alone.
offRunner == << riskVars, reportVars, patternVars, snapshotVars >>
offHelpers == << runnerVars, reportVars, patternVars, snapshotVars >>
offReport == << runnerVars, riskVars, patternVars, snapshotVars >>
offPattern == << runnerVars, riskVars, reportVars, snapshotVars >>
offSnapshot == << runnerVars, riskVars, reportVars, patternVars >>

\* ------------------------------------------------ base.py: values

\* Optional numbers (None or a float): << >> is None, << v >> is v.
NoneF == << >>
Some(v) == << v >>

\* Exact fractions stand for the floats of the profit-rate arithmetic.
Rat(n, d) == [ n |-> n, d |-> d ]
RatSub(a, b) == Rat(a.n * b.d - b.n * a.d, a.d * b.d)
RatScale(a, k) == Rat(a.n * k, a.d)
\* a / b for an integer a and a positive integer b
RatDiv(a, b) == Rat(a, b)
\* a > b and a >= b, denominators positive
RatGT(a, b) == a.n * b.d > b.n * a.d
RatGE(a, b) == a.n * b.d >= b.n * a.d
RatOfInt(k) == Rat(k, 1)

\* The characters of a signal type, for Python's substring test.
Chars(m) ==
    CASE m = "1buy" -> << "1", "b", "u", "y" >>
      [] m = "1sell" -> << "1", "s", "e", "l", "l" >>
      [] m = "down_pz_bc_buy" ->
            << "d", "o", "w", "n", "_", "p", "z", "_", "b", "c", "_", "b", "u", "y" >>
      [] m = "up_qs_bc_sell" ->
            << "u", "p", "_", "q", "s", "_", "b", "c", "_", "s", "e", "l", "l" >>

\* Python's  sub in m  on strings.
StrIn(sub, m) ==
    LET s == Chars(m)
    IN  \E i \in 1..(Len(s) - Len(sub) + 1) : SubSeq(s, i, i + Len(sub) - 1) = sub

BUY == << "b", "u", "y" >>
SELL == << "s", "e", "l", "l" >>

\* Signal types handed to the helpers (backtest.py:296-301).
Mmds == { "1buy", "1sell", "down_pz_bc_buy", "up_qs_bc_sell" }

\* Prices.
PriceLevels == { 95, 97, 100, 103 }
\* Stroke extremes.
BiLevels == { 95, 97, 100 }
\* Entry prices, recorded maximum profit rates, give-back thresholds.
EntryPrices == { 97, 100 }
MaxProfitRates == { 0, 3, 5 }
BackRates == { NoneF, Some(0), Some(2), Some(3) }

\* base.py:11-31, the fields the helpers read or write.
POSITION(m, price, loss, maxp) ==
    [ mmd |-> m, price |-> price, loss_price |-> loss, max_profit_rate |-> maxp ]

\* base.py:34-46
Operation(opt, m, msg) ==
    [ opt |-> opt, mmd |-> m, loss_price |-> NoneF, msg |-> msg ]

\* A function returning None.
RetNone == [ opt |-> "None" ]

\* A stroke (BI): its direction, is_done(), low and high.
Bis1 == { [ type |-> t, done |-> d, low |-> l, high |-> h ] :
            t \in { "up", "down" }, d \in BOOLEAN,
            l \in BiLevels, h \in BiLevels }
Bis == { b \in Bis1 : b.low < b.high }

RECURSIVE SeqsUpTo(_, _)
SeqsUpTo(S, n) ==
    IF n = 0 THEN { << >> }
    ELSE LET shorter == SeqsUpTo(S, n - 1)
         IN  shorter \cup { Append(q, x) : q \in { r \in shorter : Len(r) = n - 1 }, x \in S }

BiLists == SeqsUpTo(Bis, MaxBis)

\* ------------------------------------------------ base.py: Strategy helpers

\* check_loss with the stop price itself counted as a breach.
check_loss_Inclusive(m, p, price) ==
    IF p.loss_price = NoneF THEN RetNone
    ELSE IF StrIn(BUY, m)
    THEN IF price <= p.loss_price[1]
         THEN Operation("sell", m, << m, "stop_loss" >>) ELSE RetNone
    ELSE IF StrIn(SELL, m)
    THEN IF price >= p.loss_price[1]
         THEN Operation("sell", m, << m, "stop_loss" >>) ELSE RetNone
    ELSE RetNone

\* base.py:119-134
check_loss(m, p, price) ==
    IF p.loss_price = NoneF THEN RetNone
    ELSE IF StrIn(BUY, m)
    THEN IF price < p.loss_price[1]
         THEN Operation("sell", m, << m, "stop_loss" >>) ELSE RetNone
    ELSE IF StrIn(SELL, m)
    THEN IF price > p.loss_price[1]
         THEN Operation("sell", m, << m, "stop_loss" >>) ELSE RetNone
    ELSE RetNone

\* base.py:142-144
profit_rate(m, p, price) ==
    IF StrIn(SELL, m)
    THEN RatScale(RatDiv(p.price - price, p.price), 100)
    ELSE RatScale(RatDiv(price - p.price, p.price), 100)

\* check_back_return asking for a retrace beyond the threshold.
check_back_return_Strict(m, p, price, max_back_rate) ==
    IF max_back_rate # NoneF
    THEN LET pr == profit_rate(m, p, price)
         IN  IF /\ RatGT(pr, RatOfInt(0))
                /\ RatGT(RatSub(RatOfInt(p.max_profit_rate), pr),
                         RatOfInt(max_back_rate[1]))
             THEN Operation("sell", m, << m, "back_return_stop" >>)
             ELSE RetNone
    ELSE RetNone

\* base.py:136-147
check_back_return(m, p, price, max_back_rate) ==
    IF max_back_rate # NoneF
    THEN LET pr == profit_rate(m, p, price)
         IN  IF /\ RatGT(pr, RatOfInt(0))
                /\ RatGE(RatSub(RatOfInt(p.max_profit_rate), pr),
                         RatOfInt(max_back_rate[1]))
             THEN Operation("sell", m, << m, "back_return_stop" >>)
             ELSE RetNone
    ELSE RetNone

\* base.py:149-157: the last stroke of the list that is done, as << bi >>,
\* or << >> for None.
RECURSIVE last_done_bi(_)
last_done_bi(bis) ==
    IF bis = << >> THEN << >>
    ELSE IF bis[Len(bis)].done THEN << bis[Len(bis)] >>
    ELSE last_done_bi(SubSeq(bis, 1, Len(bis) - 1))

Max(a, b) == IF a >= b THEN a ELSE b
Min(a, b) == IF a <= b THEN a ELSE b

\* base.py:218 and 220: the new stop.
\* The stop set to the stroke's low without the max.
RaisedStop_Assign(loss, low) == low

RaisedStop(loss, low) == Max(loss, low)
LoweredStop(loss, high) == Min(loss, high)

\* base.py:210-222.  The result is the position after the call and the
\* exception the call ends with: reading .type of None raises
\* AttributeError.
dynamic_change_loss_by_bi(p, bis) ==
    IF p.loss_price = NoneF
    THEN [ pos |-> p, exc |-> NoExc ]
    ELSE LET ldb == last_done_bi(bis)
             attr_error == [ pos |-> p, exc |-> [ type |-> "AttributeError" ] ]
         IN  IF StrIn(BUY, p.mmd)
             THEN IF ldb = << >> THEN attr_error
                  ELSE IF ldb[1].type = "up"
                  THEN [ pos |-> [ p EXCEPT !.loss_price =
                                     Some(RaisedStop(p.loss_price[1], ldb[1].low)) ],
                         exc |-> NoExc ]
                  ELSE IF StrIn(SELL, p.mmd) /\ ldb[1].type = "down"
                  THEN [ pos |-> [ p EXCEPT !.loss_price =
                                     Some(LoweredStop(p.loss_price[1], ldb[1].high)) ],
                         exc |-> NoExc ]
                  ELSE [ pos |-> p, exc |-> NoExc ]
             ELSE IF StrIn(SELL, p.mmd)
             THEN IF ldb = << >> THEN attr_error
                  ELSE IF ldb[1].type = "down"
                  THEN [ pos |-> [ p EXCEPT !.loss_price =
                                     Some(LoweredStop(p.loss_price[1], ldb[1].high)) ],
                         exc |-> NoExc ]
                  ELSE [ pos |-> p, exc |-> NoExc ]
             ELSE [ pos |-> p, exc |-> NoExc ]

\* ------------------------------------------------ helper calls as actions

NoPos == POSITION("1buy", 0, NoneF, 0)
NoCall == [ fn |-> "None" ]

RiskIdle ==
    /\ pos = NoPos
    /\ call = NoCall
    /\ ret = RetNone
    /\ exc = NoExc

\* Strategy.check_loss(mmd, pos, price)
CheckLoss ==
    \E m \in Mmds, price \in PriceLevels :
        /\ call' = [ fn |-> "check_loss", mmd |-> m, price |-> price ]
        /\ ret' = check_loss(m, pos, price)
        /\ exc' = NoExc
        /\ UNCHANGED pos
        /\ UNCHANGED offHelpers

\* Strategy.check_back_return(mmd, pos, price, max_back_rate)
CheckBackReturn ==
    \E m \in Mmds, price \in PriceLevels, r \in BackRates :
        /\ call' = [ fn |-> "check_back_return", mmd |-> m, price |-> price,
                     max_back_rate |-> r ]
        /\ ret' = check_back_return(m, pos, price, r)
        /\ exc' = NoExc
        /\ UNCHANGED pos
        /\ UNCHANGED offHelpers

\* strategy.dynamic_change_loss_by_bi(pos, bis); the call record keeps what
\* the properties read of the call: the length of the stroke list, its last
\* done stroke, and the stop before the call.
DynamicChangeLoss ==
    \E bis \in BiLists :
        LET r == dynamic_change_loss_by_bi(pos, bis)
        IN  /\ call' = [ fn |-> "dynamic_change_loss_by_bi",
                         n |-> Len(bis), last_done |-> last_done_bi(bis),
                         loss_before |-> pos.loss_price ]
            /\ pos' = r.pos
            /\ exc' = r.exc
            /\ ret' = RetNone
            /\ UNCHANGED offHelpers

\* ------------------------------------------------ backtest.py: result()

\* Floats: a number n/d (d > 0), NaN, +inf, -inf, or the result of a
\* computation with logarithms and square roots, which is kept as "finite".
Num(n, d) == [ kind |-> "num", n |-> n, d |-> d ]
Zero == Num(0, 1)
NaN == [ kind |-> "nan" ]
PosInf == [ kind |-> "inf" ]
NegInf == [ kind |-> "-inf" ]
Finite == [ kind |-> "finite" ]
IsZero(x) == x.kind = "num" /\ x.n = 0

Neg(x) == Num(0 - x.n, x.d)
Times(x, k) == Num(x.n * k, x.d)
Minus(x, y) == Num(x.n * y.d - y.n * x.d, x.d * y.d)
Less(x, y) == x.n * y.d < y.n * x.d

\* x / y on numbers with y # 0.
Quot(x, y) ==
    IF y.n > 0 THEN Num(x.n * y.d, x.d * y.n)
    ELSE Num(0 - x.n * y.d, x.d * (0 - y.n))

\* numpy.float64 division: a zero divisor gives inf, -inf or nan.
NpDiv(x, y) ==
    IF IsZero(y)
    THEN IF x.n = 0 THEN NaN ELSE IF x.n > 0 THEN PosInf ELSE NegInf
    ELSE Quot(x, y)

\* Python's / on plain numbers: a zero divisor raises ZeroDivisionError.
PyDiv(x, y) ==
    IF IsZero(y) THEN [ kind |-> "ZeroDivisionError" ] ELSE Quot(x, y)

RECURSIVE RunningMax(_, _)
\* df["highlevel"] at row i (backtest.py:247-250)
RunningMax(bs, i) ==
    IF i = 1 THEN bs[1]
    ELSE IF bs[i] > RunningMax(bs, i - 1) THEN bs[i] ELSE RunningMax(bs, i - 1)

\* df["ddpercent"] at row i (backtest.py:251-252)
DdPercent(bs, i) ==
    Times(Quot(Num(bs[i] - RunningMax(bs, i), 1), Num(RunningMax(bs, i), 1)), 100)

\* df["ddpercent"].min() (backtest.py:259)
MaxDdPercent(bs) ==
    LET i == CHOOSE i \in 1..Len(bs) :
                \A j \in 1..Len(bs) : ~Less(DdPercent(bs, j), DdPercent(bs, i))
    IN  DdPercent(bs, i)

\* df["balance"] / pre_balance at row i (backtest.py:242-244)
BalanceRatio(bs, init, i) ==
    IF i = 1 THEN Num(bs[1], init) ELSE Num(bs[i], bs[i - 1])

\* df["return"].std() * 100 (backtest.py:246, 270): NaN for a single row,
\* zero when every row has the same return, a positive number otherwise.
ReturnStd(bs, init) ==
    IF Len(bs) < 2 THEN NaN
    ELSE IF \A i \in 2..Len(bs) :
               /\ ~Less(BalanceRatio(bs, init, i), BalanceRatio(bs, init, 1))
               /\ ~Less(BalanceRatio(bs, init, 1), BalanceRatio(bs, init, i))
    THEN Zero
    ELSE Finite

\* backtest.py:267
TotalReturn(bs, init) ==
    Times(Minus(Quot(Num(bs[Len(bs)], 1), Num(init, 1)), Num(1, 1)), 100)

\* backtest.py:272-276: "if return_std" is false for 0 only.
SharpeRatio(bs, init) ==
    LET return_std == ReturnStd(bs, init)
    IN  IF ~IsZero(return_std)
        THEN IF return_std = NaN THEN NaN ELSE Finite
        ELSE Zero

\* backtest.py:278
ReturnDrawdownRatio(bs, init) ==
    NpDiv(Neg(TotalReturn(bs, init)), MaxDdPercent(bs))

\* backtest.py:304-313, one row of the table.
shenglv(r) ==
    IF r.win_num = 0 /\ r.loss_num = 0 THEN Zero
    ELSE Times(PyDiv(Num(r.win_num, 1), Num(r.win_num + r.loss_num, 1)), 100)

back_rate(r) ==
    IF r.win_balance = 0 THEN Zero
    ELSE Times(PyDiv(Num(r.loss_balance, 1), Num(r.win_balance, 1)), 100)

win_mean_balance(r) ==
    IF r.win_num = 0 THEN Zero
    ELSE PyDiv(Num(r.win_balance, 1), Num(r.win_num, 1))

loss_mean_balance(r) ==
    IF r.loss_num = 0 THEN Zero
    ELSE PyDiv(Num(r.loss_balance, 1), Num(r.loss_num, 1))

ykb(r) ==
    IF IsZero(loss_mean_balance(r)) \/ IsZero(win_mean_balance(r)) THEN Zero
    ELSE PyDiv(win_mean_balance(r), loss_mean_balance(r))

\* Balance series of the report and the rows of trader.results.
ReportBalances == { 90, 100, 110 }
BalanceSeries == SeqsUpTo(ReportBalances, MaxDays) \ { << >> }
ResultRows ==
    { [ win_num |-> wn, loss_num |-> ln, win_balance |-> wb, loss_balance |-> lb ] :
        wn \in 0..2, ln \in 0..2, wb \in { 0, 30, 60 }, lb \in { 0, 20 } }
\* trader.results as the trader accumulates it: a win adds a positive
\* amount, a loss adds an amount >= 0.
ReachableRows ==
    { r \in ResultRows : /\ (r.win_num = 0) = (r.win_balance = 0)
                         /\ r.loss_num = 0 => r.loss_balance = 0 }

NoReport == [ done |-> FALSE ]

ReportIdle ==
    /\ res_in = [ mode |-> "signal", init_balance |-> 100,
                  balances |-> << 100 >>,
                  row |-> [ win_num |-> 0, loss_num |-> 0,
                            win_balance |-> 0, loss_balance |-> 0 ] ]
    /\ res_out = NoReport

\* backtest.py:215-320: result().  The statistics of lines 220-291 are
\* computed in trade mode only.
Result ==
    /\ res_out = NoReport
    /\ res_out' =
         [ done |-> TRUE,
           trade |-> res_in.mode = "trade",
           max_ddpercent |->
               IF res_in.mode = "trade" THEN MaxDdPercent(res_in.balances) ELSE Zero,
           return_std |->
               IF res_in.mode = "trade"
               THEN ReturnStd(res_in.balances, res_in.init_balance) ELSE Zero,
           sharpe_ratio |->
               IF res_in.mode = "trade"
               THEN SharpeRatio(res_in.balances, res_in.init_balance) ELSE Zero,
           return_drawdown_ratio |->
               IF res_in.mode = "trade"
               THEN ReturnDrawdownRatio(res_in.balances, res_in.init_balance)
               ELSE Zero,
           shenglv |-> shenglv(res_in.row),
           back_rate |-> back_rate(res_in.row),
           win_mean_balance |-> win_mean_balance(res_in.row),
           loss_mean_balance |-> loss_mean_balance(res_in.row),
           ykb |-> ykb(res_in.row) ]
    /\ UNCHANGED res_in
    /\ UNCHANGED offReport

\* ------------------------------------------------ base.py: pattern heuristics

NoAnswer == [ done |-> FALSE ]
Answer(v) == [ done |-> TRUE, val |-> v ]

PatternIdle ==
    /\ h_in = [ fn |-> "None" ]
    /\ h_out = NoAnswer

\* Bar prices and fractal band thresholds.
BarPrices == { 1, 2, 3 }

\* The arguments of bi_qiang_td as the function reads them:
\*   end.done, end.type              bi.end.done, bi.end.type
\*   end.last_raw_index              bi.end.klines[-1].klines[-1].index
\*   end.last_cl_index               bi.end.klines[-1].index
\*   end.low, end.high               bi.end.low(fx_qj), bi.end.high(fx_qj)
\*   last_k.index, last_k.o, last_k.c   cd.get_klines()[-1]
\* A merged bar's index counts merged bars, so it is at most the index of
\* the raw bars it holds; the latest bar is not before the fractal's.
QiangTdInputs ==
    { [ fn |-> "bi_qiang_td",
        end |-> [ done |-> d, type |-> t, last_raw_index |-> r,
                  last_cl_index |-> r - merged, low |-> lo, high |-> hi ],
        last_k |-> [ index |-> r + gap, o |-> o, c |-> c ] ] :
        d \in BOOLEAN, t \in { "ding", "di" }, r \in { 4 },
        merged \in { 0, 1 }, gap \in 0..MaxGap,
        lo \in BarPrices, hi \in BarPrices, o \in BarPrices, c \in BarPrices }

\* base.py:159-178
bi_qiang_td(end, last_k) ==
    IF end.done = FALSE THEN FALSE
    ELSE IF last_k.index - end.last_raw_index > 2 THEN FALSE
    ELSE IF end.last_cl_index = last_k.index THEN FALSE
    ELSE IF end.type = "ding" /\ last_k.o > last_k.c /\ last_k.c < end.low THEN TRUE
    ELSE IF end.type = "di" /\ last_k.o < last_k.c /\ last_k.c > end.high THEN TRUE
    ELSE FALSE

\* Strategy.bi_qiang_td(bi, cd)
BiQiangTd ==
    /\ h_in.fn = "bi_qiang_td"
    /\ h_out = NoAnswer
    /\ h_out' = Answer(bi_qiang_td(h_in.end, h_in.last_k))
    /\ UNCHANGED h_in
    /\ UNCHANGED offPattern

\* The fractals cd.get_fxs() lists after the stroke's ending fractal: index
\* is the place in the list, k_index the raw index of the fractal's middle
\* bar, later fractals on later bars.
EndFx(t) == [ index |-> 1, type |-> t, k_index |-> 10, val |-> 2, done |-> TRUE,
              low |-> 2, high |-> 2 ]
LaterFx(n) == [ index : { n }, type : { "ding", "di" }, k_index : { 11, 12, 14 },
                val : BarPrices, done : BOOLEAN ]
Ascending(fxs) == \A i \in 1..(Len(fxs) - 1) : fxs[i].k_index < fxs[i + 1].k_index
LaterFxs ==
    UNION { { fxs \in [ 1..n -> UNION { LaterFx(k + 1) : k \in 1..n } ] :
                /\ \A i \in 1..n : fxs[i].index = i + 1
                /\ Ascending(fxs) } : n \in 0..MaxFxs }

\* The arguments of bi_yanzhen_fx: bi.type, bi.end, cd.get_fxs() (the ending
\* fractal is in the list), cd.get_klines()[-1].c.
YanzhenInputs ==
    { [ fn |-> "bi_yanzhen_fx",
        bi |-> [ type |-> t, end |-> EndFx(IF t = "up" THEN "ding" ELSE "di") ],
        fxs |-> << EndFx(IF t = "up" THEN "ding" ELSE "di") >> \o later,
        price |-> p ] :
        t \in { "up", "down" }, later \in LaterFxs, p \in BarPrices }

\* base.py:189: the fractals after bi.end of its type, in list order.
NextFxs(bi, fxs) ==
    SelectSeq(fxs, LAMBDA f : f.index > bi.end.index /\ f.type = bi.end.type)

\* bi_yanzhen_fx deciding on the last fractal of next_fxs.
bi_yanzhen_fx_Last(bi, fxs, price) ==
    LET next_fxs == NextFxs(bi, fxs) IN
    IF Len(next_fxs) = 0 THEN FALSE
    ELSE LET next_fx == next_fxs[Len(next_fxs)] IN
         IF next_fx.k_index - bi.end.k_index > 3 THEN FALSE
         ELSE IF bi.type = "up"
              THEN next_fx.done /\ next_fx.val < bi.end.val /\ price < bi.end.low
         ELSE IF bi.type = "down"
              THEN next_fx.done /\ next_fx.val > bi.end.val /\ price > bi.end.high
         ELSE FALSE

\* base.py:180-208
bi_yanzhen_fx(bi, fxs, price) ==
    LET next_fxs == NextFxs(bi, fxs) IN
    IF Len(next_fxs) = 0 THEN FALSE
    ELSE LET next_fx == next_fxs[1] IN
         IF next_fx.k_index - bi.end.k_index > 3 THEN FALSE
         ELSE IF bi.type = "up"
              THEN next_fx.done /\ next_fx.val < bi.end.val /\ price < bi.end.low
         ELSE IF bi.type = "down"
              THEN next_fx.done /\ next_fx.val > bi.end.val /\ price > bi.end.high
         ELSE FALSE

\* Strategy.bi_yanzhen_fx(bi, cd)
BiYanzhenFx ==
    /\ h_in.fn = "bi_yanzhen_fx"
    /\ h_out = NoAnswer
    /\ h_out' = Answer(bi_yanzhen_fx(h_in.bi, h_in.fxs, h_in.price))
    /\ UNCHANGED h_in
    /\ UNCHANGED offPattern

\* The arguments of points_jiaodu: a list of floats and 'up' or 'down'.
PointVals == { 0, 1, 2 }
JiaoduInputs ==
    { [ fn |-> "points_jiaodu", points |-> ps, position |-> p ] :
        ps \in UNION { [ 1..n -> PointVals ] : n \in 0..MaxPoints },
        p \in { "up", "down" } }

\* x <= y on floats: false when either is NaN.
LessEq(x, y) == x.kind = "num" /\ y.kind = "num" /\ x.n * y.d <= y.n * x.d

\* talib.MA(real, timeperiod): the simple moving average over the last
\* timeperiod entries, NaN for the entries that have fewer behind them.
MA(points, timeperiod) ==
    [ j \in 1..Len(points) |->
        IF j < timeperiod THEN NaN
        ELSE Num(points[j - 1] + points[j], timeperiod) ]

\* base.py:235-238: [i, points[i]] for every entry that is not None; no
\* entry of a float array is None, the NaN entry stays. i counts from 0.
new_points(points) ==
    [ j \in 1..Len(points) |-> [ i |-> j - 1, v |-> points[j] ] ]

\* base.py:243-248: the test on new_points[i], i >= 1 (counted from 0).
IsFx(np, i, position) ==
    LET p1 == np[i]
        p2 == np[i + 1]
        last == ~(Len(np) > i + 1)
    IN  \/ /\ position = "up"
           /\ LessEq(p1.v, p2.v)
           /\ (last \/ LessEq(np[i + 2].v, p2.v))
        \/ /\ position = "down"
           /\ LessEq(p2.v, p1.v)
           /\ (last \/ LessEq(p2.v, np[i + 2].v))

\* base.py:241-249
fxs_of(np, position) ==
    SelectSeq(np, LAMBDA p : p.i >= 1 /\ IsFx(np, p.i, position))

\* The sort key order of base.py:254: a goes strictly before b.
KeyBefore(a, b, position) ==
    IF position = "up" THEN Less(b.v, a.v) ELSE Less(a.v, b.v)

RECURSIVE sorted_EqualLaterFirst(_, _)
\* sorted() putting the later of two equal keys first.
sorted_EqualLaterFirst(fxs, position) ==
    IF Len(fxs) = 0 THEN << >>
    ELSE LET x == fxs[Len(fxs)]
             front == sorted_EqualLaterFirst(SubSeq(fxs, 1, Len(fxs) - 1), position)
             k == Cardinality({ j \in DOMAIN front : KeyBefore(front[j], x, position) })
         IN  SubSeq(front, 1, k) \o << x >> \o SubSeq(front, k + 1, Len(front))

RECURSIVE sorted(_, _)
\* base.py:254: sorted(fxs, key=value, reverse=(position == 'up')); the sort
\* is stable, also when reversed.
sorted(fxs, position) ==
    IF Len(fxs) = 0 THEN << >>
    ELSE LET x == fxs[Len(fxs)]
             front == sorted(SubSeq(fxs, 1, Len(fxs) - 1), position)
             k == Cardinality({ j \in DOMAIN front : ~KeyBefore(x, front[j], position) })
         IN  SubSeq(front, 1, k) \o << x >> \o SubSeq(front, k + 1, Len(front))

\* math.degrees(math.atan(k)): an angle with the sign of k.
Degrees(k) == [ kind |-> "degrees", atan |-> k ]

\* base.py:256-263
jiaodu(p1, p2) ==
    Degrees(Quot(Minus(p1.v, p2.v), Num(p1.i - p2.i, 1)))

\* base.py:224-265; the literal 0 of lines 231 and 252 is Zero.
points_jiaodu(points, position) ==
    IF Len(points) = 0 THEN Zero
    ELSE LET fxs == fxs_of(new_points(MA(points, 2)), position) IN
         IF Len(fxs) < 2 THEN Zero
         ELSE LET ordered == sorted(fxs, position) IN
              jiaodu(ordered[1], ordered[2])

\* Strategy.points_jiaodu(points, position)
PointsJiaodu ==
    /\ h_in.fn = "points_jiaodu"
    /\ h_out = NoAnswer
    /\ h_out' = Answer(points_jiaodu(h_in.points, h_in.position))
    /\ UNCHANGED h_in
    /\ UNCHANGED offPattern

\* ------------------------------------------------ BackTest.__init__

\* The key check stopping one key short of the list.
FirstMissing_SkipsLast(cfg) ==
    LET miss == { i \in 1..(Len(check_keys) - 1) : check_keys[i] \notin cfg.keys }
    IN  IF miss = {} THEN None
        ELSE check_keys[CHOOSE i \in miss : \A j \in miss : i <= j]

\* The first key of check_keys that cfg lacks, or None (backtest.py:36-38).
FirstMissing(cfg) ==
    LET miss == { i \in 1..Len(check_keys) : check_keys[i] \notin cfg.keys }
    IN  IF miss = {} THEN None
        ELSE check_keys[CHOOSE i \in miss : \A j \in miss : i <= j]

\* backtest.py:26-75
Construct ==
    /\ pc = "new"
    /\ IF ~config.given
       THEN \* line 30-31: returns an object without attributes
            /\ pc' = "bare"
            /\ UNCHANGED << raised, trader, datas, trader_datas >>
       ELSE IF FirstMissing(config) # None
       THEN \* line 38: raise Exception
            /\ pc' = "ctor_raised"
            /\ raised' = [ type |-> "Exception", key |-> FirstMissing(config) ]
            /\ UNCHANGED << trader, datas, trader_datas >>
       ELSE \* lines 40-75
            /\ pc' = "constructed"
            /\ trader' = "BackTestTrader"
            /\ datas' = "BackTestKlines"
            /\ trader_datas' = "BackTestKlines"
            /\ UNCHANGED raised
    /\ UNCHANGED offRunner
    /\ UNCHANGED << config, next_frequency, remaining, tick, idx, positions,
                    positions_history, balance_history, log, marked, invoked,
                    ticks_done, end_calls, live_at_end >>

\* ------------------------------------------------ BackTestTrader (per the
\* written specification, sections 4.1 and 4.5; its code is not in src/)

LivePos(c, m, t) == [ code |-> c, mmd |-> m, open_tick |-> t ]

Sealed(p, t, msg) ==
    [ code |-> p.code, mmd |-> p.mmd, open_tick |-> p.open_tick,
      close_tick |-> t, close_msg |-> msg ]

\* A set of positions as a sequence, in a fixed order.
RECURSIVE SeqOf(_)
SeqOf(S) ==
    IF S = {} THEN << >>
    ELSE LET p == CHOOSE x \in S :
                    \A y \in S : \/ x.code < y.code
                                 \/ x.code = y.code /\ x.mmd = "1buy"
                                 \/ x = y
         IN  << p >> \o SeqOf(S \ { p })

RECURSIVE CloseInto(_, _, _, _)
CloseInto(hist, ps, t, msg) ==
    IF ps = << >> THEN hist
    ELSE CloseInto(
            [ hist EXCEPT ![ps[1].code] = Append(@, Sealed(ps[1], t, msg)) ],
            Tail(ps), t, msg)

\* PositionManager.open: fails if a live position exists for
\* (instrument, signal_type).
HasLive(live, c, m) == \E p \in live : p.code = c /\ p.mmd = m

\* trader.run(code) returning normally: the strategy gives no instruction,
\* or opens a position, or closes one of the instrument's live positions.
TraderRunReturns(c) ==
    \/ UNCHANGED << positions, positions_history >>
    \/ \E m \in RunMmds :
          /\ ~HasLive(positions, c, m)
          /\ positions' = positions \cup { LivePos(c, m, tick) }
          /\ UNCHANGED positions_history
    \/ \E p \in positions :
          /\ p.code = c
          /\ positions' = positions \ { p }
          /\ positions_history' = CloseInto(positions_history, << p >>, tick, "close")

\* The exceptions trader.run(code) may raise: a runtime error of the
\* strategy, or the state-consistency error of opening a position while one
\* is live for the same instrument and signal type.
TraderRunRaises(c) ==
    { [ type |-> "Exception", kind |-> "runtime", code |-> c ] }
    \cup
    { [ type |-> "Exception", kind |-> "state_consistency", code |-> c ] :
        m \in { m \in RunMmds : HasLive(positions, c, m) } }

\* trader.update_position_record(): marks every open position and records
\* the balance under the current timestamp.
UpdatePositionRecordEffect(b) ==
    balance_history' = [ t \in (DOMAIN balance_history) \cup { tick } |->
                            IF t = tick THEN b ELSE balance_history[t] ]

\* trader.end(): forceCloseAll.
TraderEndEffect ==
    /\ positions' = {}
    /\ positions_history' =
          CloseInto(positions_history, SeqOf(positions), tick, "end")

\* ------------------------------------------------ BackTest.run

\* backtest.py:152-160 on an object built without configuration: the first
\* attribute read (self.frequencys or self.datas) raises AttributeError.
RunOnBare ==
    /\ pc = "bare"
    /\ pc' = "raised"
    /\ raised' = [ type |-> "AttributeError", at |-> "run" ]
    /\ UNCHANGED offRunner
    /\ UNCHANGED << config, trader, datas, trader_datas, next_frequency,
                    remaining, tick, idx, positions, positions_history,
                    balance_history, log, marked, invoked, ticks_done,
                    end_calls, live_at_end >>

\* backtest.py:156-162: the cadence is chosen and the provider is
\* initialised; the provider then holds a stream of n bars.
RunStart ==
    /\ pc = "constructed"
    /\ \E f \in { None, "30m" } :
          next_frequency' = IF f = None THEN "5m" ELSE f
    /\ \E n \in 0..MaxTicks : remaining' = n
    /\ pc' = "loop"
    /\ UNCHANGED offRunner
    /\ UNCHANGED << config, raised, trader, datas, trader_datas, tick, idx,
                    positions, positions_history, balance_history, log,
                    marked, invoked, ticks_done, end_calls, live_at_end >>

\* backtest.py:165-167: is_ok = self.datas.next(); break on False.
DatasNext ==
    /\ pc = "loop"
    /\ IF remaining = 0
       THEN /\ pc' = "end"
            /\ live_at_end' = positions
            /\ UNCHANGED << remaining, tick, invoked >>
       ELSE /\ pc' = "mark"
            /\ remaining' = remaining - 1
            /\ tick' = tick + 1
            /\ invoked' = << >>
            /\ UNCHANGED live_at_end
    /\ UNCHANGED offRunner
    /\ UNCHANGED << config, raised, trader, datas, trader_datas,
                    next_frequency, idx, positions, positions_history,
                    balance_history, log, marked, ticks_done, end_calls >>

\* datas.next() raising taken as the end of the stream.
DatasNextRaises_AsExhausted ==
    /\ pc = "loop"
    /\ pc' = "end"
    /\ raised' = [ type |-> "Exception", at |-> "datas.next" ]
    /\ live_at_end' = positions
    /\ UNCHANGED offRunner
    /\ UNCHANGED << config, trader, datas, trader_datas, next_frequency,
                    remaining, tick, idx, positions, positions_history,
                    balance_history, log, marked, invoked, ticks_done,
                    end_calls >>

\* backtest.py:165 raising: nothing in run catches it.
DatasNextRaises ==
    /\ pc = "loop"
    /\ pc' = "raised"
    /\ raised' = [ type |-> "Exception", at |-> "datas.next" ]
    /\ UNCHANGED offRunner
    /\ UNCHANGED << config, trader, datas, trader_datas, next_frequency,
                    remaining, tick, idx, positions, positions_history,
                    balance_history, log, marked, invoked, ticks_done,
                    end_calls, live_at_end >>

\* The for loop of backtest.py:170 after the body ran for codes[i].
ForNext(i) ==
    IF i < Len(codes)
    THEN /\ idx' = i + 1
         /\ pc' = "codes"
         /\ UNCHANGED ticks_done
    ELSE /\ idx' = 0
         /\ pc' = "loop"
         /\ ticks_done' = ticks_done + 1

\* The for loop entered without the mark-to-market update.
UpdatePositionRecord_Skipped ==
    /\ pc = "mark"
    /\ ForNext(0)
    /\ UNCHANGED offRunner
    /\ UNCHANGED << config, raised, trader, datas, trader_datas,
                    next_frequency, remaining, tick, positions,
                    positions_history, balance_history, log, marked, invoked,
                    end_calls, live_at_end >>

\* backtest.py:169: self.trader.update_position_record(), then the for loop
\* is entered.
UpdatePositionRecord ==
    /\ pc = "mark"
    /\ \E b \in BalanceLevels : UpdatePositionRecordEffect(b)
    /\ marked' = tick
    /\ ForNext(0)
    /\ UNCHANGED offRunner
    /\ UNCHANGED << config, raised, trader, datas, trader_datas,
                    next_frequency, remaining, tick, positions,
                    positions_history, log, invoked, end_calls, live_at_end >>

\* backtest.py:169 raising: nothing in run catches it.
UpdatePositionRecordRaises ==
    /\ pc = "mark"
    /\ pc' = "raised"
    /\ raised' = [ type |-> "Exception", at |-> "update_position_record" ]
    /\ UNCHANGED offRunner
    /\ UNCHANGED << config, trader, datas, trader_datas, next_frequency,
                    remaining, tick, idx, positions, positions_history,
                    balance_history, log, marked, invoked, ticks_done,
                    end_calls, live_at_end >>

\* backtest.py:171-172: self.trader.run(code) returns.
RunCode ==
    /\ pc = "codes"
    /\ TraderRunReturns(codes[idx])
    /\ invoked' = Append(invoked, codes[idx])
    /\ ForNext(idx)
    /\ UNCHANGED offRunner
    /\ UNCHANGED << config, raised, trader, datas, trader_datas,
                    next_frequency, remaining, tick, balance_history, log,
                    marked, end_calls, live_at_end >>

\* An except clause that logs and raises again.
ExceptHandler_Reraise(i, e) ==
    /\ log' = log \o << [ msg |-> "exception", code |-> codes[i] ],
                        [ msg |-> "traceback", exc |-> e.kind ] >>
    /\ pc' = "raised"
    /\ raised' = e
    /\ UNCHANGED << idx, ticks_done >>

\* backtest.py:173-175: the except clause; it logs the instrument and the
\* stack trace (which names the exception) and falls through to the next
\* iteration.
ExceptHandler(i, e) ==
    /\ log' = log \o << [ msg |-> "exception", code |-> codes[i] ],
                        [ msg |-> "traceback", exc |-> e.kind ] >>
    /\ ForNext(i)
    /\ UNCHANGED raised

\* backtest.py:171-175: self.trader.run(code) raises an Exception.
RunCodeRaises ==
    /\ pc = "codes"
    /\ Len(log) < 2 * MaxFailures
    /\ \E e \in TraderRunRaises(codes[idx]) : ExceptHandler(idx, e)
    /\ invoked' = Append(invoked, codes[idx])
    /\ UNCHANGED offRunner
    /\ UNCHANGED << config, trader, datas, trader_datas, next_frequency,
                    remaining, tick, positions, positions_history,
                    balance_history, marked, end_calls, live_at_end >>

\* run returning without trader.end().
RunEnd_NoLiquidation ==
    /\ pc = "end"
    /\ trader_datas' = None
    /\ pc' = "done"
    /\ UNCHANGED offRunner
    /\ UNCHANGED << config, raised, trader, datas, next_frequency, remaining,
                    tick, idx, positions, positions_history, balance_history,
                    log, marked, invoked, ticks_done, end_calls, live_at_end >>

\* backtest.py:177-183: trader.end(), the provider reference is dropped,
\* run returns True.
RunEnd ==
    /\ pc = "end"
    /\ TraderEndEffect
    /\ end_calls' = end_calls + 1
    /\ trader_datas' = None
    /\ pc' = "done"
    /\ UNCHANGED offRunner
    /\ UNCHANGED << config, raised, trader, datas, next_frequency, remaining,
                    tick, idx, balance_history, log, marked, invoked,
                    ticks_done, live_at_end >>

\* The state before BackTest(config) is called.
RunnerInit(cfg) ==
    /\ config = cfg
    /\ pc = "new"
    /\ raised = NoExc
    /\ trader = None
    /\ datas = None
    /\ trader_datas = None
    /\ next_frequency = None
    /\ remaining = 0
    /\ tick = 0
    /\ idx = 0
    /\ positions = {}
    /\ positions_history = [ c \in { codes[i] : i \in 1..Len(codes) } |-> << >> ]
    /\ balance_history = << >>
    /\ log = << >>
    /\ marked = 0
    /\ invoked = << >>
    /\ ticks_done = 0
    /\ end_calls = 0
    /\ live_at_end = {}

\* ------------------------------------------------ BackTest.save, BackTest.load

\* Python objects are records with a class, an identity and their state;
\* None is NoObj.
NoObj == [ cls |-> "NoneType" ]
StrategyObj(id) == [ cls |-> "Strategy", id |-> id ]

\* backtest.py:69-71 and 130-132: BackTestKlines(market, start_datetime,
\* end_datetime, frequencys, cl_config).
KlinesObj(id, a) ==
    [ cls |-> "BackTestKlines", id |-> id, market |-> a.market,
      start_datetime |-> a.start_datetime, end_datetime |-> a.end_datetime,
      frequencys |-> a.frequencys, cl_config |-> a.cl_config ]

\* The names save stores besides trader and next_frequency.
ConfigFields ==
    { "save_file", "mode", "market", "base_code", "codes", "frequencys",
      "start_datetime", "end_datetime", "init_balance", "fee_rate", "max_pos",
      "cl_config", "is_stock", "is_futures", "strategy" }

\* A complete configuration: every required key, save_file given or not.
CompleteConfig == [ given |-> TRUE, keys |-> RequiredKeys ]
Attrs ==
    { [ save_file |-> f, mode |-> "signal", market |-> "a", base_code |-> codes[1],
        codes |-> codes, frequencys |-> << "30m", "5m" >>,
        start_datetime |-> "2020-01-01", end_datetime |-> "2021-01-01",
        init_balance |-> 100000, fee_rate |-> 6, max_pos |-> 2,
        cl_config |-> [ fx_qj |-> "fx_qj_k" ], is_stock |-> TRUE, is_futures |-> FALSE,
        strategy |-> StrategyObj("own") ] :
        f \in { NoneF, Some("backtest.pkl") } }

NoAttrs == [ save_file |-> NoneF ]
NoFile == [ written |-> FALSE ]
NotLoaded == [ loaded |-> FALSE ]

SnapshotIdle ==
    /\ attrs = NoAttrs
    /\ file = NoFile
    /\ restored = NotLoaded

\* self.trader as an object: set_strategy(self.strategy) and
\* set_data(self.datas) of lines 68 and 72 share the objects of self.
TraderObj ==
    [ cls |-> "BackTestTrader", id |-> "own",
      strategy |-> attrs.strategy,
      datas |-> IF trader_datas = None THEN NoObj ELSE KlinesObj("own", attrs),
      positions |-> positions,
      positions_history |-> positions_history,
      balance_history |-> balance_history ]

\* backtest.py:83-101
save_dict ==
    [ f \in ConfigFields \cup { "trader", "next_frequency" } |->
        IF f = "trader" THEN TraderObj
        ELSE IF f = "next_frequency" THEN next_frequency
        ELSE attrs[f] ]

\* pickle writes an object as its class and state, without its identity,
\* and reads it back as a new object; plain values are written as they are.
Pickled(o) ==
    IF o.cls = "NoneType" THEN o ELSE [ f \in DOMAIN o \ { "id" } |-> o[f] ]
Unpickled(p, id) ==
    IF p.cls = "NoneType" THEN p
    ELSE [ f \in DOMAIN p \cup { "id" } |-> IF f = "id" THEN id ELSE p[f] ]

PickledTrader(t) ==
    Pickled([ t EXCEPT !.strategy = Pickled(@), !.datas = Pickled(@) ])
UnpickledTrader(p, id) ==
    Unpickled([ p EXCEPT !.strategy = Unpickled(@, id), !.datas = Unpickled(@, id) ], id)

\* pickle.dump(save_dict, file), line 105
pickle_dump(d) ==
    [ d EXCEPT !.strategy = Pickled(@), !.trader = PickledTrader(@) ]

\* pickle.load(file), line 112
pickle_load(b) ==
    [ b EXCEPT !.strategy = Unpickled(@, "loaded"),
               !.trader = UnpickledTrader(@, "loaded") ]

\* backtest.py:77-105, called between two calls of the object
Save ==
    /\ pc \in { "constructed", "done", "raised" }
    /\ IF attrs.save_file = NoneF
       THEN \* line 81-82
            UNCHANGED file
       ELSE file' = [ written |-> TRUE, path |-> attrs.save_file[1],
                      bytes |-> pickle_dump(save_dict) ]
    /\ UNCHANGED << attrs, restored >>
    /\ UNCHANGED offSnapshot

\* What load leaves in the new object, given the mapping it read.
Loaded(d, t) ==
    [ f \in ConfigFields \cup { "trader", "next_frequency", "datas", "loaded" } |->
        IF f = "loaded" THEN TRUE
        ELSE IF f = "trader" THEN t
        ELSE IF f = "datas" THEN KlinesObj("new", d)
        ELSE d[f] ]

\* load building a trader as __init__ does instead of taking the saved one.
Load_NewTrader ==
    /\ pc \in { "constructed", "done", "raised" }
    /\ restored = NotLoaded
    /\ file.written
    /\ LET d == pickle_load(file.bytes) IN
       restored' = Loaded(d, [ cls |-> "BackTestTrader", id |-> "new",
                               strategy |-> d.strategy,
                               datas |-> KlinesObj("new", d),
                               positions |-> {},
                               positions_history |-> [ c \in DOMAIN positions_history |-> << >> ],
                               balance_history |-> << >> ])
    /\ UNCHANGED << attrs, file >>
    /\ UNCHANGED offSnapshot

\* backtest.py:107-134 on a new BackTest(), the file being there
Load ==
    /\ pc \in { "constructed", "done", "raised" }
    /\ restored = NotLoaded
    /\ file.written
    /\ LET d == pickle_load(file.bytes) IN
       restored' = Loaded(d, d.trader)
    /\ UNCHANGED << attrs, file >>
    /\ UNCHANGED offSnapshot

\* ------------------------------------------------ specifications

\* BackTest(config) followed by run().
Init ==
    /\ \E cfg \in Configs : RunnerInit(cfg)
    /\ RiskIdle
    /\ ReportIdle
    /\ PatternIdle
    /\ SnapshotIdle

Next ==
    \/ Construct
    \/ RunOnBare
    \/ RunStart
    \/ DatasNext
    \/ DatasNextRaises
    \/ UpdatePositionRecord
    \/ UpdatePositionRecordRaises
    \/ RunCode
    \/ RunCodeRaises
    \/ RunEnd

Spec == Init /\ [][Next]_vars

\* The stop-loss and give-back checks on one position.
RiskInit ==
    /\ RunnerInit(NoConfig)
    /\ pos \in { POSITION(m, e, l, x) :
                    m \in Mmds, e \in EntryPrices,
                    l \in { NoneF } \cup { Some(v) : v \in PriceLevels },
                    x \in MaxProfitRates }
    /\ call = NoCall
    /\ ret = RetNone
    /\ exc = NoExc
    /\ ReportIdle
    /\ PatternIdle
    /\ SnapshotIdle

RiskNext ==
    \/ CheckLoss
    \/ CheckBackReturn

SpecRisk == RiskInit /\ [][RiskNext]_vars

\* A position whose stop is moved stroke by stroke.
StopInit ==
    /\ RunnerInit(NoConfig)
    /\ pos \in { POSITION(m, 100, l, 0) :
                    m \in Mmds, l \in { NoneF } \cup { Some(v) : v \in BiLevels } }
    /\ call = NoCall
    /\ ret = RetNone
    /\ exc = NoExc
    /\ ReportIdle
    /\ PatternIdle
    /\ SnapshotIdle

StopNext ==
    \/ DynamicChangeLoss

SpecStop == StopInit /\ [][StopNext]_vars

\* result() on the balance history and the aggregates of a finished run.
ReportInit ==
    /\ RunnerInit(NoConfig)
    /\ RiskIdle
    /\ res_in \in [ mode : { "trade", "signal" }, init_balance : { 100 },
                    balances : BalanceSeries, row : ReachableRows ]
    /\ res_out = NoReport
    /\ PatternIdle
    /\ SnapshotIdle

ReportNext ==
    \/ Result

SpecReport == ReportInit /\ [][ReportNext]_vars

\* BackTest(config) with a complete configuration, run(), and save() and
\* load() between the calls.
SnapshotInit ==
    /\ RunnerInit(CompleteConfig)
    /\ RiskIdle
    /\ ReportIdle
    /\ PatternIdle
    /\ attrs \in Attrs
    /\ file = NoFile
    /\ restored = NotLoaded

SnapshotNext ==
    \/ Construct
    \/ RunStart
    \/ DatasNext
    \/ DatasNextRaises
    \/ UpdatePositionRecord
    \/ UpdatePositionRecordRaises
    \/ RunCode
    \/ RunCodeRaises
    \/ RunEnd
    \/ Save
    \/ Load

SpecSnapshot == SnapshotInit /\ [][SnapshotNext]_vars

\* bi_qiang_td on one stroke end and one latest bar.
QiangTdInit ==
    /\ RunnerInit(NoConfig)
    /\ RiskIdle
    /\ ReportIdle
    /\ h_in \in QiangTdInputs
    /\ h_out = NoAnswer
    /\ SnapshotIdle

QiangTdNext ==
    \/ BiQiangTd

SpecQiangTd == QiangTdInit /\ [][QiangTdNext]_vars

\* bi_yanzhen_fx on one stroke and one list of fractals.
YanzhenInit ==
    /\ RunnerInit(NoConfig)
    /\ RiskIdle
    /\ ReportIdle
    /\ h_in \in YanzhenInputs
    /\ h_out = NoAnswer
    /\ SnapshotIdle

YanzhenNext ==
    \/ BiYanzhenFx

SpecYanzhen == YanzhenInit /\ [][YanzhenNext]_vars

\* points_jiaodu on one point series.
JiaoduInit ==
    /\ RunnerInit(NoConfig)
    /\ RiskIdle
    /\ ReportIdle
    /\ h_in \in JiaoduInputs
    /\ h_out = NoAnswer
    /\ SnapshotIdle

JiaoduNext ==
    \/ PointsJiaodu

SpecJiaodu == JiaoduInit /\ [][JiaoduNext]_vars

\* ================================================================ properties

\* Signal types by side, as the table of backtest.py:296-301 names them:
\* buy points and downward divergences are long, the others short.
LongMmds == { "1buy", "down_pz_bc_buy" }
ShortMmds == { "1sell", "up_qs_bc_sell" }

IsStopCall(c) == c.fn = "dynamic_change_loss_by_bi"

\* C1: once a position's stop-loss price is set, no call of
\* dynamic_change_loss_by_bi, whatever the stroke list, loosens it: the stop
\* stays set, a long position's stop never falls and a short position's
\* never rises.  In particular a long position's stop of 95 becomes 97 on a
\* last completed upward stroke with low 97, and a last completed downward
\* stroke leaves a long position's stop of 97 at 97.
C1_StopNeverLoosens ==
    [][ pos.loss_price # NoneF =>
          /\ pos'.loss_price # NoneF
          /\ pos.mmd \in LongMmds => pos'.loss_price[1] >= pos.loss_price[1]
          /\ pos.mmd \in ShortMmds => pos'.loss_price[1] <= pos.loss_price[1]
          /\ ( /\ pos.mmd \in LongMmds
               /\ pos.loss_price = Some(95)
               /\ exc' = NoExc
               /\ call'.last_done # << >>
               /\ call'.last_done[1].type = "up"
               /\ call'.last_done[1].low = 97 ) => pos'.loss_price = Some(97)
          /\ ( /\ pos.mmd \in LongMmds
               /\ pos.loss_price = Some(97)
               /\ exc' = NoExc
               /\ call'.last_done # << >>
               /\ call'.last_done[1].type = "down" ) => pos'.loss_price = Some(97)
      ]_vars

\* A long position whose stop of 95 was just raised to 97 by a completed
\* upward stroke with low 97.
C1_Witness ==
    /\ IsStopCall(call)
    /\ pos.mmd = "1buy"
    /\ call.loss_before = Some(95)
    /\ call.last_done # << >>
    /\ call.last_done[1].type = "up"
    /\ call.last_done[1].low = 97
    /\ pos.loss_price = Some(97)

\* C6: dynamic_change_loss_by_bi finishes normally and leaves the position
\* as it was when the position has no stop, and also when the stroke list
\* holds no completed stroke (the empty list included).
C6_NoOpWithoutStopOrDoneStroke ==
    ( /\ IsStopCall(call)
      /\ \/ call.loss_before = NoneF
         \/ call.last_done = << >> )
    => /\ exc = NoExc
       /\ pos.loss_price = call.loss_before

\* C7: check_loss returns a close instruction tagged with the given signal
\* type exactly when the position has a stop and either the signal is long
\* and price < stop, or the signal is short and price > stop; otherwise it
\* returns None; the position is not modified.
C7_CheckLoss ==
    [][ call'.fn = "check_loss" =>
          /\ pos' = pos
          /\ exc' = NoExc
          /\ IF /\ pos.loss_price # NoneF
                /\ \/ call'.mmd \in LongMmds /\ call'.price < pos.loss_price[1]
                   \/ call'.mmd \in ShortMmds /\ call'.price > pos.loss_price[1]
             THEN /\ ret'.opt = "sell"
                  /\ ret'.mmd = call'.mmd
             ELSE ret' = RetNone
      ]_vars

\* A short signal's price above the stop gave a close instruction.
C7_Witness ==
    /\ call.fn = "check_loss"
    /\ call.mmd = "up_qs_bc_sell"
    /\ pos.loss_price = Some(100)
    /\ call.price = 103
    /\ ret.opt = "sell"
    /\ ret.mmd = "up_qs_bc_sell"

\* C8: check_back_return returns a close instruction exactly when
\* max_back_rate is set, the profit rate at the given price relative to the
\* entry price (sign-adjusted for a short signal) is > 0, and the position's
\* max_profit_rate minus that rate is >= max_back_rate; otherwise it returns
\* None; the position is not modified.  (Rates are percentages: with entry e
\* and price p the long rate is 100 (p - e) / e.)
C8_CheckBackReturn ==
    [][ call'.fn = "check_back_return" =>
          LET gain == IF call'.mmd \in ShortMmds
                      THEN pos.price - call'.price
                      ELSE call'.price - pos.price
          IN  /\ pos' = pos
              /\ exc' = NoExc
              /\ IF /\ call'.max_back_rate # NoneF
                    /\ gain > 0
                    /\ pos.max_profit_rate * pos.price - 100 * gain
                         >= call'.max_back_rate[1] * pos.price
                 THEN /\ ret'.opt = "sell"
                      /\ ret'.mmd = call'.mmd
                 ELSE ret' = RetNone
      ]_vars

\* A long position entered at 100 with a recorded maximum of 5 percent, now
\* at 103: the retrace of 2 points meets a threshold of 2 exactly.
C8_Witness ==
    /\ call.fn = "check_back_return"
    /\ call.mmd = "1buy"
    /\ pos.price = 100
    /\ pos.max_profit_rate = 5
    /\ call.price = 103
    /\ call.max_back_rate = Some(2)
    /\ ret.opt = "sell"

\* C2: an exception of one instrument's pipeline (trader.run) during a tick
\* is caught and does not abort run: the for loop goes on to the next
\* instrument of the tick (or, after the last one, to the next
\* datas.next()), the balance history recorded so far stays as it is, run
\* never ends with a pipeline exception, and when run has returned the
\* provider was exhausted and every tick it supplied was processed.
C2_PipelineFailureIsolated ==
    /\ [](pc = "raised" => "at" \in DOMAIN raised)
    /\ [](pc = "done" => raised = NoExc /\ remaining = 0 /\ ticks_done = tick)
    /\ [][ Len(log') > Len(log) =>
             /\ pc = "codes"
             /\ balance_history' = balance_history
             /\ tick' = tick
             /\ remaining' = remaining
             /\ raised' = NoExc
             /\ invoked' = Append(invoked, codes[idx])
             /\ IF idx < Len(codes)
                THEN pc' = "codes" /\ idx' = idx + 1
                ELSE pc' = "loop"
         ]_vars

\* The first instrument's pipeline failed in the first tick, the failure
\* was logged, and the loop stands at the second instrument of that tick.
C2_Witness ==
    /\ pc = "codes"
    /\ tick = 1
    /\ idx = 2
    /\ Len(log) = 2
    /\ log[1].code = codes[1]
    /\ 1 \in DOMAIN balance_history

\* The closed-history entries of a live position.
Closings(p) ==
    { i \in DOMAIN positions_history[p.code] :
        /\ positions_history[p.code][i].mmd = p.mmd
        /\ positions_history[p.code][i].open_tick = p.open_tick }

\* C3: trader.end() is called exactly once, after the provider reported
\* exhaustion and the last tick's instruments were all processed, and
\* before run returns; after it there is no live position and every
\* position that was live at exhaustion is in the closed history exactly
\* once.
C3_ForcedLiquidationOnce ==
    /\ pc = "end" =>
          /\ remaining = 0
          /\ tick > 0 => invoked = codes
          /\ live_at_end = positions
    /\ pc # "done" => end_calls = 0
    /\ pc = "done" =>
          /\ end_calls = 1
          /\ positions = {}
          /\ \A p \in live_at_end : Cardinality(Closings(p)) = 1

\* run returned after a stream that ended with two positions live.
C3_Witness ==
    /\ pc = "done"
    /\ Cardinality(live_at_end) >= 2
    /\ tick >= 1

\* C4: in every tick update_position_record() runs after datas.next()
\* succeeded and before trader.run of any instrument of the tick; trader.run
\* is then called once per instrument of codes, in order; and datas.next()
\* of the following tick is called only after all of them.
C4_TickOrdering ==
    /\ [](pc = "mark" => tick > 0 /\ marked = tick - 1 /\ invoked = << >>)
    /\ [](pc = "codes" =>
            /\ marked = tick
            /\ tick \in DOMAIN balance_history
            /\ idx \in 1..Len(codes)
            /\ invoked = SubSeq(codes, 1, idx - 1))
    /\ [](pc = "loop" /\ tick > 0 => invoked = codes /\ marked = tick)
    /\ [][ tick' # tick =>
             /\ pc = "loop"
             /\ pc' = "mark"
             /\ tick' = tick + 1
             /\ tick > 0 => invoked = codes
         ]_vars
    /\ [][ marked' # marked => pc = "mark" /\ marked' = tick /\ invoked = << >> ]_vars
    /\ [][ (invoked' # invoked /\ invoked' # << >>) =>
             /\ pc = "codes"
             /\ marked = tick
             /\ invoked' = Append(invoked, codes[idx])
         ]_vars

\* The second tick is complete: both instruments ran, in order, after the
\* tick was marked.
C4_Witness ==
    /\ pc = "loop"
    /\ tick = 2
    /\ marked = 2
    /\ invoked = codes

\* The keys a configuration must hold.
C5_Required ==
    { "mode", "market", "base_code", "codes", "frequencys", "start_datetime",
      "end_datetime", "init_balance", "fee_rate", "max_pos", "cl_config",
      "is_stock", "is_futures", "strategy" }

\* C5: BackTest(config) with a configuration that lacks a required key
\* raises an Exception naming a missing key, before the trader or the data
\* provider is created; no tick ever runs on that object.
C5_MissingKeyFatal ==
    ( /\ config.given
      /\ C5_Required \ config.keys # {}
      /\ pc # "new" )
    => /\ pc = "ctor_raised"
       /\ raised.type = "Exception"
       /\ raised.key \in C5_Required \ config.keys
       /\ trader = None
       /\ datas = None
       /\ trader_datas = None
       /\ tick = 0

\* The constructor raised on a configuration that lacks only 'strategy'.
C5_Witness ==
    /\ pc = "ctor_raised"
    /\ config.keys = C5_Required \ { "strategy" }
    /\ raised.key = "strategy"

\* C9: a state-consistency error of an instrument's pipeline (opening a
\* position while one is live for the same instrument and signal type) is
\* never taken by the catch-log-continue handling of the for loop.
C9_StateErrorNotSwallowed ==
    \A i \in DOMAIN log :
        log[i].msg = "traceback" => log[i].exc # "state_consistency"

\* C10: every ratio of result() is 0 when its denominator is 0: the win
\* rate without wins and losses, the give-back ratio with no gross win, the
\* mean win and mean loss with a count of 0, the profit/loss ratio with a
\* mean loss of 0, the Sharpe ratio with a return standard deviation of 0,
\* the return/drawdown ratio with a maximum drawdown percentage of 0.
C10_RatiosGuardZero ==
    res_out # NoReport =>
        /\ (res_in.row.win_num = 0 /\ res_in.row.loss_num = 0) => res_out.shenglv = Zero
        /\ res_in.row.win_balance = 0 => res_out.back_rate = Zero
        /\ res_in.row.win_num = 0 => res_out.win_mean_balance = Zero
        /\ res_in.row.loss_num = 0 => res_out.loss_mean_balance = Zero
        /\ IsZero(res_out.loss_mean_balance) => res_out.ykb = Zero
        /\ (res_out.trade /\ IsZero(res_out.return_std)) => res_out.sharpe_ratio = Zero
        /\ (res_out.trade /\ IsZero(res_out.max_ddpercent))
              => res_out.return_drawdown_ratio = Zero

\* The guarded ratios of result(): all but the return/drawdown ratio.
GuardedRatiosZero ==
    res_out # NoReport =>
        /\ (res_in.row.win_num = 0 /\ res_in.row.loss_num = 0) => res_out.shenglv = Zero
        /\ res_in.row.win_balance = 0 => res_out.back_rate = Zero
        /\ res_in.row.win_num = 0 => res_out.win_mean_balance = Zero
        /\ res_in.row.loss_num = 0 => res_out.loss_mean_balance = Zero
        /\ IsZero(res_out.loss_mean_balance) => res_out.ykb = Zero
        /\ (res_out.trade /\ IsZero(res_out.return_std)) => res_out.sharpe_ratio = Zero


\* The exception of datas.next() or update_position_record() left run.
ProviderOrMarkRaised ==
    /\ raised.type = "Exception"
    /\ "at" \in DOMAIN raised

\* C16: an exception of datas.next() or of update_position_record() leaves
\* run at once: no instrument and no tick is processed after it, trader.end()
\* is never called (the positions live at that moment stay live) and
\* trader.datas is not cleared.
C16_ProviderFailurePropagates ==
    /\ [](ProviderOrMarkRaised =>
            /\ pc = "raised"
            /\ end_calls = 0
            /\ trader_datas = "BackTestKlines")
    /\ [][ (ProviderOrMarkRaised') =>
             /\ positions' = positions
             /\ positions_history' = positions_history
             /\ tick' = tick
             /\ invoked' = invoked
             /\ ticks_done' = ticks_done
             /\ balance_history' = balance_history
             /\ log' = log
         ]_vars

\* update_position_record() raised in the second tick with a position live.
C16_Witness ==
    /\ pc = "raised"
    /\ raised = [ type |-> "Exception", at |-> "update_position_record" ]
    /\ tick = 2
    /\ positions # {}
    /\ end_calls = 0
    /\ trader_datas = "BackTestKlines"


\* The latest bar is the fractal's last supporting bar.
SameBar(i) == i.last_k.index = i.end.last_raw_index

\* C14: bi_qiang_td returns true exactly when the stroke's ending fractal is
\* confirmed, the latest bar's index exceeds that of the fractal's last raw
\* bar by at most 2, the latest bar is not the fractal's last supporting
\* bar, and either the fractal is a peak, the latest bar is bearish and
\* closes below the fractal's low-band threshold, or the fractal is a
\* trough, the latest bar is bullish and closes above the high-band
\* threshold.
C14_StrongPause ==
    (h_in.fn = "bi_qiang_td" /\ h_out # NoAnswer) =>
        ( h_out.val <=>
            /\ h_in.end.done
            /\ h_in.last_k.index - h_in.end.last_raw_index <= 2
            /\ ~SameBar(h_in)
            /\ \/ /\ h_in.end.type = "ding"
                  /\ h_in.last_k.o > h_in.last_k.c
                  /\ h_in.last_k.c < h_in.end.low
               \/ /\ h_in.end.type = "di"
                  /\ h_in.last_k.o < h_in.last_k.c
                  /\ h_in.last_k.c > h_in.end.high )

\* bi_qiang_td agrees with the statement of C14 whenever no bars were
\* merged before the fractal's last bar (merged-bar index = raw index).
QiangTdWithoutMerges ==
    (h_in.fn = "bi_qiang_td" /\ h_in.end.last_cl_index = h_in.end.last_raw_index)
        => C14_StrongPause


\* The fractals of the ending fractal's type that come after it.
SameTypeAfter(i) ==
    { k \in DOMAIN i.fxs :
        /\ i.fxs[k].index > i.bi.end.index
        /\ i.fxs[k].type = i.bi.end.type }

\* The earliest of them.
FirstAfter(i) ==
    i.fxs[CHOOSE k \in SameTypeAfter(i) :
              \A j \in SameTypeAfter(i) : i.fxs[k].index <= i.fxs[j].index]

\* What the stroke asks of a confirming fractal f at the current close.
Confirms(i, f) ==
    /\ f.done
    /\ \/ /\ i.bi.type = "up"
          /\ f.val < i.bi.end.val
          /\ i.price < i.bi.end.low
       \/ /\ i.bi.type = "down"
          /\ f.val > i.bi.end.val
          /\ i.price > i.bi.end.high

Sgn(x) == IF x > 0 THEN 1 ELSE IF x < 0 THEN 0 - 1 ELSE 0

\* The sign of a returned angle.
AngleSign(a) == IF a.kind = "degrees" THEN Sgn(a.atan.n) ELSE Sgn(a.n)

\* The smoothed series of i: entry k (counted from 0, k >= 1) is the mean
\* of points k-1 and k; entry 0 is undefined.
Defined(i) == 1..(Len(i.points) - 1)
Smoothed(i, k) == Num(i.points[k] + i.points[k + 1], 2)

\* k is at least as extreme as its neighbour n, if it has that neighbour.
NotBelow(i, k, n) ==
    n \in Defined(i) =>
        IF i.position = "up" THEN ~Less(Smoothed(i, k), Smoothed(i, n))
        ELSE ~Less(Smoothed(i, n), Smoothed(i, k))

\* The extrema by three-point comparison, a boundary point judged on the
\* one neighbour it has.
ExtremaWithBoundaries(i) ==
    { k \in Defined(i) : NotBelow(i, k, k - 1) /\ NotBelow(i, k, k + 1) }

\* The same without the first defined point.
ExtremaAfterFirst(i) == ExtremaWithBoundaries(i) \ { 1 }

\* k is more extreme than n, the earlier of two equal values first.
MoreExtreme(i, k, n) ==
    LET a == Smoothed(i, k)
        b == Smoothed(i, n)
    IN  \/ IF i.position = "up" THEN Less(b, a) ELSE Less(a, b)
        \/ ~Less(a, b) /\ ~Less(b, a) /\ k < n

MostExtreme(i, E) == CHOOSE k \in E : \A n \in E \ { k } : MoreExtreme(i, k, n)

\* The sign of (v1 - v2) / (i1 - i2) for the two most extreme points of E.
SlopeSign(i, E) ==
    LET k1 == MostExtreme(i, E)
        k2 == MostExtreme(i, E \ { k1 })
    IN  Sgn(Minus(Smoothed(i, k1), Smoothed(i, k2)).n) * Sgn(k1 - k2)

\* points_jiaodu answers as C13 says when the extrema are E.
AngleAsClaimed(i, o, E) ==
    IF Cardinality(E) < 2 THEN o.val = Zero
    ELSE AngleSign(o.val) = SlopeSign(i, E)

SameValue(a, b, f) == IF f = "strategy" THEN Pickled(a) = Pickled(b) ELSE a = b

C12_ProviderNotInSnapshot ==
    /\ file.written =>
          /\ "datas" \notin DOMAIN file.bytes
          /\ file.bytes.trader.datas = NoObj
    /\ restored.loaded =>
          /\ restored.datas = KlinesObj("new", attrs)
          /\ restored.trader.datas = restored.datas

\* A snapshot taken after run has completed holds no provider.
SnapshotOfFinishedRunHasNoProvider ==
    (pc = "done" /\ file.written /\ file.bytes = pickle_dump(save_dict)) =>
        /\ "datas" \notin DOMAIN file.bytes
        /\ file.bytes.trader.datas = NoObj

====
